---- MODULE Spec2Model ----
(***************************************************************************)
(* A model of the beauty-clinic advisor: the record store and its queries  *)
(* (scraper/data_processor.py), the semantic index (advisor/               *)
(* vector_store.py), the advisor and its conversation history (advisor/    *)
(* advisor_agent.py), and the command-line and web front ends              *)
(* (beauty_advisor.py, main.py).                                           *)
(*                                                                         *)
(* Text is a sequence of one-character strings, so that lower(), split()   *)
(* and the substring test `in` are computed and not assumed.  A clinic is  *)
(* a function from the keys it has to their values: a missing key is a     *)
(* key outside its DOMAIN, read with a default as dict.get does.  Ratings  *)
(* are integers in tenths (55 is 5.5).                                     *)
(***************************************************************************)
EXTENDS Integers, Sequences, FiniteSets, TLC

VARIABLES
    clinics,               \* DataProcessor.clinics
    advisor_clinics,       \* BeautyAdvisor.clinics
    embeddings,            \* VectorStore.embeddings: TRUE when an embedding client exists
    vectorstore,           \* VectorStore.vectorstore: None, or the index and its documents
    llm,                   \* BeautyAdvisor.llm: TRUE when a generation client exists
    conversation_history,  \* BeautyAdvisor.conversation_history
    keyword_seen,          \* some search_clinics call so far consulted the keyword index
    last,                  \* the last operation: its name, its inputs and what it returned
    advisor,               \* main.py's global `advisor`: 0 for None, or the instance it names
    instances,             \* the BeautyAdvisor objects the web worker has constructed
    threads,               \* the web worker's threads: where each is in its request
    rebuild                \* /scrape in progress: where it is, and create_from_clinics' local list

vars == <<clinics, advisor_clinics, embeddings, vectorstore, llm,
          conversation_history, keyword_seen, last, advisor, instances, threads, rebuild>>

\* The web worker's own state.
web_vars == <<advisor, instances, threads>>

(***************************************************************************)
(* Bounds of the model.                                                    *)
(***************************************************************************)
MaxStore == 2          \* records in a clinics.json file
MaxQueryLen == 3       \* characters in a generated query

MaxChats == 4          \* chat calls in one session
MaxWebChats == 2       \* chat requests the web worker receives

None == "None"

(***************************************************************************)
(* Text.                                                                   *)
(***************************************************************************)
Alphabet == {"a", "B", " "}

RECURSIVE TextsUpTo(_)
TextsUpTo(n) ==
    IF n = 0 THEN {<<>>}
    ELSE LET shorter == TextsUpTo(n - 1)
         IN  shorter \cup {Append(t, ch) : t \in {s \in shorter : Len(s) = n - 1}, ch \in Alphabet}

Queries == TextsUpTo(MaxQueryLen)

\* str.lower(), one character.
lower_char(ch) ==
    CASE ch = "A" -> "a"
      [] ch = "B" -> "b"
      [] ch = "F" -> "f"
      [] ch = "H" -> "h"
      [] OTHER -> ch

\* str.lower()
lower(s) == [i \in 1..Len(s) |-> lower_char(s[i])]

\* str.isspace(), one character.
is_space(ch) == ch = " "

\* str.split() with no separator: the maximal runs of non-whitespace, in order.
\* `cur` is the run being read at position i.
RECURSIVE split_from(_, _, _)
split_from(s, i, cur) ==
    IF i > Len(s) THEN (IF cur = <<>> THEN <<>> ELSE <<cur>>)
    ELSE IF is_space(s[i])
         THEN (IF cur = <<>> THEN <<>> ELSE <<cur>>) \o split_from(s, i + 1, <<>>)
         ELSE split_from(s, i + 1, Append(cur, s[i]))

split(s) == split_from(s, 1, <<>>)

\* sep.join(parts)
RECURSIVE join(_, _)
join(sep, parts) ==
    IF parts = <<>> THEN <<>>
    ELSE IF Len(parts) = 1 THEN parts[1]
    ELSE parts[1] \o sep \o join(sep, Tail(parts))

\* `sub in text` for two strings.
contains(text, sub) ==
    \E off \in 0..(Len(text) - Len(sub)) : SubSeq(text, off + 1, off + Len(sub)) = sub

\* dict.get(key, default)
get(d, key, default) == IF key \in DOMAIN d THEN d[key] ELSE default

\* seq[:n], as Python slices: a negative n counts from the end.
slice_to(seq, n) ==
    LET stop == IF n >= 0 THEN (IF n < Len(seq) THEN n ELSE Len(seq))
                ELSE (IF Len(seq) + n > 0 THEN Len(seq) + n ELSE 0)
    IN  SubSeq(seq, 1, stop)

\* seq[-n:] for n > 0.
slice_last(seq, n) ==
    SubSeq(seq, (IF Len(seq) - n > 0 THEN Len(seq) - n ELSE 0) + 1, Len(seq))

(***************************************************************************)
(* The records a clinics.json file may hold.                               *)
(***************************************************************************)
Salon == <<"s", "a", "l", "o", "n">>
Nail == <<"n", "a", "i", "l">>
Unknown == <<"U", "n", "k", "n", "o", "w", "n">>

Clinic1 ==
    [id |-> "t1", name |-> <<"A", "b">>, category |-> Salon, location |-> <<"b", "A">>,
     area |-> <<"B", "B">>, rating |-> 55, services |-> << <<"a", " ", "b">>, <<"b", "b">> >>]

Clinic2 ==
    [id |-> "t2", name |-> <<"a", "a">>, category |-> Nail, location |-> <<"a">>,
     rating |-> 0, description |-> <<"A">>]

\* A record without an id, a name, a category, a location or a rating.
Clinic3 == [description |-> <<"n">>]

ClinicPool == {Clinic1, Clinic2, Clinic3}

RECURSIVE StoresUpTo(_)
StoresUpTo(n) ==
    IF n = 0 THEN {<<>>}
    ELSE LET shorter == StoresUpTo(n - 1)
         IN  shorter \cup {Append(s, c) : s \in {t \in shorter : Len(t) = n - 1}, c \in ClinicPool}

Stores == StoresUpTo(MaxStore)

(***************************************************************************)
(* DataProcessor (scraper/data_processor.py).                              *)
(***************************************************************************)

\* The text search_by_keyword matches against, for one clinic.
searchable_text(clinic) ==
    lower(join(<<" ">>, <<get(clinic, "name", <<>>),
                          get(clinic, "description", <<>>),
                          get(clinic, "area", <<>>),
                          get(clinic, "location", <<>>),
                          get(clinic, "category", <<>>),
                          join(<<" ">>, get(clinic, "services", <<>>))>>))

\* A plausible slip: every keyword must match (AND for OR).
all_keywords_match(keywords, text) ==
    \A k \in 1..Len(keywords) : contains(text, keywords[k])

\* any(kw in searchable_text for kw in keywords)
any_keyword_matches(keywords, text) ==
    \E k \in 1..Len(keywords) : contains(text, keywords[k])

\* The loop of search_by_keyword: `results` grows by the clinics that match.
RECURSIVE search_loop(_, _, _, _)
search_loop(store, keywords, i, results) ==
    IF i > Len(store) THEN results
    ELSE search_loop(store, keywords, i + 1,
                     IF any_keyword_matches(keywords, searchable_text(store[i]))
                     THEN Append(results, store[i])
                     ELSE results)

\* A plausible slip: a query without keywords taken as "no filter".
search_by_keyword_empty_is_all(store, keyword) ==
    IF split(lower(keyword)) = <<>> THEN store
    ELSE search_loop(store, split(lower(keyword)), 1, <<>>)

search_by_keyword(store, keyword) ==
    search_loop(store, split(lower(keyword)), 1, <<>>)

\* filter_by_rating: the clinics with c.get('rating', 0) >= min_rating.
filter_by_rating(store, min_rating) ==
    SelectSeq(store, LAMBDA c : get(c, "rating", 0) >= min_rating)

\* A plausible slip: the location alone, without the area.
filter_by_location_only(store, location) ==
    SelectSeq(store, LAMBDA c : contains(lower(get(c, "location", <<>>)), lower(location)))

\* filter_by_location: the clinics whose location or area holds the text.
filter_by_location(store, location) ==
    SelectSeq(store, LAMBDA c : \/ contains(lower(get(c, "location", <<>>)), lower(location))
                                \/ contains(lower(get(c, "area", <<>>)), lower(location)))

\* filter_by_category
filter_by_category(store, category) ==
    SelectSeq(store, LAMBDA c : contains(lower(get(c, "category", <<>>)), lower(category)))

\* sorted(seq, key=rating, reverse=True): Python's sort is stable, also when
\* reversed, so the record at k ends up before the record at j exactly when it
\* has the higher rating, or the same rating and the earlier place.
rating_of(clinic) == get(clinic, "rating", 0)

\* A plausible slip: sorted(...)[::-1] for reverse=True, which turns ties around.
sorts_before_unstable(seq, k, j) ==
    \/ rating_of(seq[k]) > rating_of(seq[j])
    \/ rating_of(seq[k]) = rating_of(seq[j]) /\ k > j

sorts_before(seq, k, j) ==
    \/ rating_of(seq[k]) > rating_of(seq[j])
    \/ rating_of(seq[k]) = rating_of(seq[j]) /\ k < j

\* The sorted list: the record at j goes to the place after the records that
\* sort before it.
sorted_by_rating_desc(seq) ==
    LET place == [j \in 1..Len(seq) |->
                     1 + Cardinality({k \in 1..Len(seq) : sorts_before(seq, k, j)})]
    IN  [i \in 1..Len(seq) |-> seq[CHOOSE j \in 1..Len(seq) : place[j] = i]]

get_top_rated(store, n) == slice_to(sorted_by_rating_desc(store), n)

\* A plausible slip: clinics without the key are left out of the counts.
RECURSIVE count_loop_skipping(_, _, _, _)
count_loop_skipping(store, key, i, counts) ==
    IF i > Len(store) THEN counts
    ELSE IF key \notin DOMAIN store[i] THEN count_loop_skipping(store, key, i + 1, counts)
    ELSE LET v == store[i][key]
             n == IF v \in DOMAIN counts THEN counts[v] ELSE 0
         IN  count_loop_skipping(store, key, i + 1,
                        [k \in DOMAIN counts \cup {v} |-> IF k = v THEN n + 1 ELSE counts[k]])

\* The counting loop of get_statistics for one key: a dict from the values
\* seen to how many clinics carry them, `Unknown` for a clinic without the key.
RECURSIVE count_loop(_, _, _, _)
count_loop(store, key, i, counts) ==
    IF i > Len(store) THEN counts
    ELSE LET v == get(store[i], key, Unknown)
             n == IF v \in DOMAIN counts THEN counts[v] ELSE 0
         IN  count_loop(store, key, i + 1,
                        [k \in DOMAIN counts \cup {v} |-> IF k = v THEN n + 1 ELSE counts[k]])

count_by(store, key) == count_loop(store, key, 1, <<>>)

RECURSIVE sum(_)
sum(seq) == IF seq = <<>> THEN 0 ELSE seq[1] + sum(Tail(seq))

\* sum(ratings) / len(ratings), kept exact as numerator and denominator.
EmptyDict == <<>>

get_statistics(store) ==
    IF store = <<>> THEN EmptyDict
    ELSE LET ratings == [i \in 1..Len(store) |-> rating_of(store[i])]
         IN  [total_clinics |-> Len(store),
              average_rating |-> IF ratings # <<>>
                                 THEN [num |-> sum(ratings), den |-> Len(ratings)]
                                 ELSE [num |-> 0, den |-> 1],
              categories |-> count_by(store, "category"),
              locations |-> count_by(store, "location")]


(***************************************************************************)
(* VectorStore (advisor/vector_store.py).  The index is None or holds the  *)
(* documents it was built from; what the embedding backend and Chroma      *)
(* answer is an input of each call.                                        *)
(***************************************************************************)
NoVectorstore == [is_none |-> TRUE, documents |-> <<>>]

\* `if self.vectorstore:` / `if not self.vectorstore:`
truthy(vs) == ~vs.is_none

\* json.dumps(clinic) and json.loads(text): the text carries the record.
json_dumps(clinic) == [json |-> clinic]

json_loads(text) == text.json

\* The documents create_from_clinics builds, one per clinic, in order; the
\* metadata field read back by search is clinic_data.
documents_of(store) ==
    [i \in 1..Len(store) |-> [metadata |-> [id |-> get(store[i], "id", ""),
                                            clinic_data |-> json_dumps(store[i])]]]

\* create_from_clinics: nothing without embeddings; otherwise the index is
\* replaced when Chroma.from_documents returns and left alone when it raises.
create_from_clinics(emb, vs, store, chroma_ok) ==
    IF ~emb THEN vs
    ELSE IF chroma_ok THEN [is_none |-> FALSE, documents |-> documents_of(store)]
    ELSE vs

\* load_existing: the index persisted by an earlier run, when there are
\* embeddings, the directory exists and Chroma opens it.
\* disk is [exists, opens, documents].
load_existing_returns(emb, disk) == emb /\ disk.exists /\ disk.opens

load_existing(emb, vs, disk) ==
    IF load_existing_returns(emb, disk)
    THEN [is_none |-> FALSE, documents |-> disk.documents]
    ELSE vs

TopK == 5

Min(a, b) == IF a < b THEN a ELSE b

\* What similarity_search(query, k) may answer: it raises, or it returns the
\* min(k, n) nearest documents in an order the embedding decides.
similarity_outcomes(vs, k) ==
    LET n == Len(vs.documents)
        m == Min(k, n)
    IN  {[raises |-> TRUE, hits |-> <<>>]} \cup
        {[raises |-> FALSE, hits |-> [i \in 1..m |-> vs.documents[p[i]]]] :
            p \in {q \in [1..m -> 1..n] : \A i, j \in 1..m : i # j => q[i] # q[j]}}

\* VectorStore.search
vector_search(vs, query, k, outcome) ==
    IF ~truthy(vs) THEN <<>>
    ELSE IF outcome.raises THEN <<>>
    ELSE [i \in 1..Len(outcome.hits) |-> json_loads(outcome.hits[i].metadata.clinic_data)]

(***************************************************************************)
(* BeautyAdvisor (advisor/advisor_agent.py).                               *)
(***************************************************************************)

\* A plausible slip: the semantic and the keyword results merged in one call.
search_clinics_merging(vs, store, query, outcome) ==
    IF truthy(vs)
    THEN [result |-> vector_search(vs, query, TopK, outcome) \o search_by_keyword(store, query),
          calls |-> <<[index |-> "semantic", k |-> TopK], [index |-> "keyword", k |-> 0]>>]
    ELSE [result |-> search_by_keyword(store, query),
          calls |-> <<[index |-> "keyword", k |-> 0]>>]

\* A plausible slip: the choice made once, before any index was built.
search_clinics_always_keyword(vs, store, query, outcome) ==
    [result |-> search_by_keyword(store, query),
     calls |-> <<[index |-> "keyword", k |-> 0]>>]

\* A plausible slip: the semantic index asked whether it is ready or not.
search_clinics_always_semantic(vs, store, query, outcome) ==
    [result |-> vector_search(vs, query, TopK, outcome),
     calls |-> <<[index |-> "semantic", k |-> TopK]>>]

\* search_clinics: the result, and the index calls it made (the keyword
\* search takes no k, written 0).
search_clinics(vs, store, query, outcome) ==
    IF truthy(vs)
    THEN [result |-> vector_search(vs, query, TopK, outcome),
          calls |-> <<[index |-> "semantic", k |-> TopK]>>]
    ELSE [result |-> search_by_keyword(store, query),
          calls |-> <<[index |-> "keyword", k |-> 0]>>]

\* A plausible slip: an index that raised once is given up.
vectorstore_dropped_on_failure(vs, outcome) == IF outcome.raises THEN NoVectorstore ELSE vs

\* self.vectorstore after VectorStore.search: the except branch prints and
\* returns [], and assigns nothing.
vectorstore_after_search(vs, outcome) == vs

\* A plausible slip: a generation client that raised once is given up.
llm_dropped_on_failure(has_llm, raised) == has_llm /\ ~raised

\* self.llm after chat: the except branch prints and falls back, and assigns
\* nothing.
llm_after_invoke(has_llm, raised) == has_llm

\* The outcomes of the semantic backend one search_clinics call may meet.
search_outcomes(vs) ==
    IF truthy(vs) THEN similarity_outcomes(vs, TopK) ELSE {[raises |-> FALSE, hits |-> <<>>]}

search_keywords == <<
    <<"f", "i", "n", "d">>,
    <<"s", "e", "a", "r", "c", "h">>,
    <<"l", "o", "o", "k", "i", "n", "g", " ", "f", "o", "r">>,
    <<"r", "e", "c", "o", "m", "m", "e", "n", "d">>,
    <<"b", "e", "s", "t">>,
    <<"c", "l", "i", "n", "i", "c">>,
    <<"s", "a", "l", "o", "n">> >>

\* any(keyword in user_message.lower() for keyword in search_keywords)
should_search(user_message) ==
    \E k \in 1..Len(search_keywords) : contains(lower(user_message), search_keywords[k])

upper_char(ch) ==
    CASE ch = "a" -> "A"
      [] ch = "b" -> "B"
      [] ch = "n" -> "N"
      [] ch = "s" -> "S"
      [] OTHER -> ch

\* str.capitalize()
capitalize(s) == [i \in 1..Len(s) |-> IF i = 1 THEN upper_char(s[i]) ELSE lower_char(s[i])]

NotAvailable == <<"N", "/", "A">>

\* format_clinic_info: clinic['name'] raises KeyError on a record without a
\* name; otherwise the block of text, kept as the values the template shows.
format_raises(clinic) == "name" \notin DOMAIN clinic

format_clinic_info(clinic) ==
    [name |-> clinic["name"],
     category |-> capitalize(get(clinic, "category", NotAvailable)),
     area |-> get(clinic, "area", <<>>),
     location |-> capitalize(get(clinic, "location", <<>>)),
     stars |-> get(clinic, "rating", 0) \div 10,
     rating |-> get(clinic, "rating", 0 - 1),
     rating_shown |-> "rating" \in DOMAIN clinic,
     services |-> join(<<",", " ">>, get(clinic, "services", <<>>)),
     description |-> get(clinic, "description", <<>>)]

ContextLimit == 3

WindowSize == 5

\* A plausible slip: the first turns for the last.
first_turns(history) == SubSeq(history, 1, Min(WindowSize, Len(history)))

\* conversation_history[-5:]
active_window(history) ==
    SubSeq(history, (IF Len(history) - WindowSize > 0 THEN Len(history) - WindowSize ELSE 0) + 1,
           Len(history))

\* A turn's content: fixed wording, the clinic blocks it embeds, the user's text.
user_content(user_message) == [wording |-> "user", blocks |-> <<>>, text |-> user_message]

SystemPrompt == [wording |-> "system_prompt", blocks |-> <<>>, text |-> <<>>]

LlmResponse == [wording |-> "llm_response", blocks |-> <<>>, text |-> <<>>]

NoReply == [wording |-> "none", blocks |-> <<>>, text |-> <<>>]

\* The messages of one generation request: the system prompt, one
\* HumanMessage per turn of the window, then the clinic context if there is any.
compose_messages(history, clinic_context) ==
    <<[type |-> "system", content |-> SystemPrompt]>>
    \o [i \in 1..Len(active_window(history)) |->
            [type |-> "human", content |-> active_window(history)[i].content]]
    \o (IF clinic_context # <<>>
        THEN <<[type |-> "system",
                content |-> [wording |-> "clinic_information", blocks |-> clinic_context,
                             text |-> <<>>]]>>
        ELSE <<>>)

\* A plausible slip: the help message whatever was retrieved.
fallback_always_help(user_message, clinic_context) ==
    [wording |-> "intro+help", blocks |-> <<>>, text |-> <<>>]

\* _generate_fallback_response
generate_fallback_response(user_message, clinic_context) ==
    IF clinic_context # <<>>
    THEN [wording |-> "intro+clinics+more_information", blocks |-> clinic_context, text |-> <<>>]
    ELSE [wording |-> "intro+help", blocks |-> <<>>, text |-> <<>>]

\* A plausible slip: the history cut to the window when the request is composed.
append_truncating(history, turn) == Append(active_window(history), turn)

\* conversation_history.append(turn)
history_append(history, turn) == Append(history, turn)

\* What chat does once the user's turn is stored, up to its reply.  ext is
\* what the backends do in this call: ext.semantic the outcome of the
\* similarity search, ext.llm_raises whether llm.invoke raises.  history_now
\* is conversation_history as the call reads it.  The result: whether the call
\* goes on or raised, the reply, the index calls made and the request sent.
chat_respond(vs, store, has_llm, history_now, user_message, ext) ==
    LET searched == should_search(user_message)
        found == IF searched THEN search_clinics(vs, store, user_message, ext.semantic)
                 ELSE [result |-> <<>>, calls |-> <<>>]
        shown == slice_to(found.result, ContextLimit)
        key_error == \E i \in 1..Len(shown) : format_raises(shown[i])
        clinic_context == [i \in 1..Len(shown) |-> format_clinic_info(shown[i])]
        request == IF has_llm THEN compose_messages(history_now, clinic_context) ELSE <<>>
        reply == IF has_llm /\ ~ext.llm_raises THEN LlmResponse
                 ELSE generate_fallback_response(user_message, clinic_context)
    IN  IF key_error
        THEN [outcome |-> "raised", reply |-> NoReply,
              calls |-> found.calls, request |-> <<>>, context |-> <<>>]
        ELSE [outcome |-> "returned", reply |-> reply,
              calls |-> found.calls, request |-> request, context |-> clinic_context]

user_turn(user_message) == [role |-> "user", content |-> user_content(user_message)]

assistant_turn(assistant_message) == [role |-> "assistant", content |-> assistant_message]

\* chat, start to end with nothing in between: the history after the call,
\* and what chat_respond gives.
chat(vs, store, has_llm, history, user_message, ext) ==
    LET h1 == history_append(history, user_turn(user_message))
        r == chat_respond(vs, store, has_llm, h1, user_message, ext)
    IN  [history |-> IF r.outcome = "raised" THEN h1
                     ELSE history_append(h1, assistant_turn(r.reply)),
         outcome |-> r.outcome, reply |-> r.reply, calls |-> r.calls,
         request |-> r.request, context |-> r.context]

\* load_clinics: a missing file returns [] and leaves self.clinics alone;
\* otherwise self.clinics becomes what the file holds, and is returned.
\* A file is [exists |-> BOOLEAN, content |-> the records it holds].
load_clinics_store(store, file) == IF ~file.exists THEN store ELSE file.content

load_clinics_returns(store, file) == IF ~file.exists THEN <<>> ELSE file.content

Files == [exists : {TRUE}, content : Stores] \cup {[exists |-> FALSE, content |-> <<>>]}

(***************************************************************************)
(* The record store on its own: a DataProcessor, loaded and queried.       *)
(***************************************************************************)
TopNs == (0 - 1)..(MaxStore + 1)

\* gunicorn.conf.py: one worker process of two threads.
NumThreads == 2

Threads == 1..NumThreads

IdleThread == [pc |-> "idle", session |-> "", message |-> <<>>, instance |-> 0,
               new |-> 0, result |-> [outcome |-> "none", reply |-> NoReply, request |-> <<>>]]

\* The web worker before its first request: no advisor, every thread idle.
WebIdle ==
    /\ advisor = 0
    /\ instances = <<>>
    /\ threads = [t \in Threads |-> IdleThread]

\* No /scrape in progress.  old and target record the index as the last
\* reload found it and the index that reload's build is to publish.
no_rebuild(vs) == [pc |-> "idle", documents |-> <<>>, old |-> vs, target |-> vs]

Untouched == <<advisor_clinics, embeddings, vectorstore, llm, conversation_history, keyword_seen,
               web_vars, rebuild>>

InitStore ==
    /\ clinics = <<>>
    /\ advisor_clinics = <<>>
    /\ embeddings = FALSE
    /\ vectorstore = NoVectorstore
    /\ llm = FALSE
    /\ conversation_history = <<>>
    /\ keyword_seen = FALSE
    /\ last = [op |-> "init"]
    /\ WebIdle
    /\ rebuild = no_rebuild(vectorstore)

LoadClinics ==
    \E file \in Files :
        /\ clinics' = load_clinics_store(clinics, file)
        /\ last' = [op |-> "load_clinics", result |-> load_clinics_returns(clinics, file)]
        /\ UNCHANGED Untouched

SearchByKeyword ==
    \E q \in Queries :
        /\ last' = [op |-> "search_by_keyword", query |-> q,
                    result |-> search_by_keyword(clinics, q)]
        /\ UNCHANGED <<clinics, Untouched>>

\* A plausible slip: self.clinics.sort(...) for sorted(self.clinics, ...).
store_sorted_in_place(store, n) == sorted_by_rating_desc(store)

\* self.clinics after get_top_rated: sorted() builds a new list and the slice
\* another, the store's own list is only read.
store_after_get_top_rated(store, n) == store

GetTopRated ==
    \E n \in TopNs :
        /\ last' = [op |-> "get_top_rated", n |-> n, result |-> get_top_rated(clinics, n)]
        /\ clinics' = store_after_get_top_rated(clinics, n)
        /\ UNCHANGED Untouched

MinRatings == {0, 1, 55, 56}

FilterByRating ==
    \E min_rating \in MinRatings :
        /\ last' = [op |-> "filter_by_rating", min_rating |-> min_rating,
                    result |-> filter_by_rating(clinics, min_rating)]
        /\ UNCHANGED <<clinics, Untouched>>

FilterByLocation ==
    \E location \in Queries :
        /\ last' = [op |-> "filter_by_location", location |-> location,
                    result |-> filter_by_location(clinics, location)]
        /\ UNCHANGED <<clinics, Untouched>>

FilterByCategory ==
    \E category \in Queries :
        /\ last' = [op |-> "filter_by_category", category |-> category,
                    result |-> filter_by_category(clinics, category)]
        /\ UNCHANGED <<clinics, Untouched>>

GetStatistics ==
    /\ last' = [op |-> "get_statistics", result |-> get_statistics(clinics)]
    /\ UNCHANGED <<clinics, Untouched>>

\* The /stats command of the command line: it reads the keys of the result.
stats_command(stats) ==
    IF "total_clinics" \notin DOMAIN stats THEN [raised |-> "KeyError"]
    ELSE IF "average_rating" \notin DOMAIN stats THEN [raised |-> "KeyError"]
    ELSE IF "categories" \notin DOMAIN stats THEN [raised |-> "KeyError"]
    ELSE IF "locations" \notin DOMAIN stats THEN [raised |-> "KeyError"]
    ELSE [raised |-> None]

StatsCommand ==
    /\ last' = [op |-> "/stats", raised |-> stats_command(get_statistics(clinics)).raised]
    /\ UNCHANGED <<clinics, Untouched>>

NextStore ==
    \/ LoadClinics
    \/ SearchByKeyword
    \/ GetTopRated
    \/ GetStatistics
    \/ StatsCommand
    \/ FilterByRating
    \/ FilterByLocation
    \/ FilterByCategory

SpecStore == InitStore /\ [][NextStore]_vars

(***************************************************************************)
(* GET /api/clinics/top (main.py, get_top_clinics) over a store large      *)
(* enough for its cap to matter.                                           *)
(***************************************************************************)
TopCap == 50

\* A store of n records, Clinic1 and Clinic2 in turn.
store_of_size(n) == [i \in 1..n |-> IF i % 2 = 1 THEN Clinic1 ELSE Clinic2]

\* Stores of a few records, and stores around the cap.
TopStoreSizes == 0..3 \cup (TopCap - 1)..(TopCap + 4)

\* The integers the limit parameter is given as: around zero, and around the cap.
TopLimits == (0 - 3)..3 \cup (TopCap - 1)..(TopCap + 2)

InitTop ==
    /\ \E n \in TopStoreSizes : clinics = store_of_size(n)
    /\ advisor_clinics = clinics
    /\ embeddings = FALSE
    /\ vectorstore = NoVectorstore
    /\ llm = FALSE
    /\ conversation_history = <<>>
    /\ keyword_seen = FALSE
    /\ last = [op |-> "init"]
    /\ WebIdle
    /\ rebuild = no_rebuild(vectorstore)

\* limit = min(int(limit), 50); the clinics of the response are
\* processor.get_top_rated(limit).
GetTopClinics ==
    /\ \E limit \in TopLimits :
          last' = [op |-> "GET /api/clinics/top", limit |-> limit, status |-> 200,
                   clinics |-> get_top_rated(clinics, Min(limit, TopCap))]
    /\ UNCHANGED <<clinics, Untouched>>

NextTop ==
    \/ GetTopClinics

SpecTop == InitTop /\ [][NextTop]_vars

(***************************************************************************)
(* One advisor in a command-line session (beauty_advisor.py): constructed, *)
(* then chatted with, asked search_clinics, and reloaded by /scrape.       *)
(***************************************************************************)
FindN == <<"f", "i", "n", "d", " ", "n">>
Hi == <<"h", "i">>

\* What the user types in the command-line session.
Messages == {FindN}

\* The queries search_clinics is given: /api/clinics/search answers 400 to an
\* empty q and passes every other q on, a q of one space included.
AdvisorQueries == {FindN, <<"B">>, <<" ">>}

\* The clinics.json files and persisted indexes a session starts from.
AdvisorStores == {<<>>, <<Clinic1>>, <<Clinic3, Clinic1>>}

AdvisorFiles ==
    [exists : {TRUE}, content : AdvisorStores] \cup {[exists |-> FALSE, content |-> <<>>]}

Disks ==
    {[exists |-> FALSE, opens |-> FALSE, documents |-> <<>>]} \cup
    {[exists |-> TRUE, opens |-> o, documents |-> documents_of(st)] :
        o \in BOOLEAN, st \in AdvisorStores}

\* BeautyAdvisor.__init__: the store is loaded; the persisted index is tried
\* first, and an index is built only when none was loaded and there are clinics.
init_vectorstore(emb, loaded_clinics, disk, chroma_ok) ==
    IF ~load_existing_returns(emb, disk) /\ loaded_clinics # <<>>
    THEN create_from_clinics(emb, load_existing(emb, NoVectorstore, disk), loaded_clinics, chroma_ok)
    ELSE load_existing(emb, NoVectorstore, disk)

Init ==
    \E file \in AdvisorFiles, disk \in Disks, chroma_ok \in BOOLEAN :
        /\ clinics = load_clinics_store(<<>>, file)
        /\ advisor_clinics = load_clinics_returns(<<>>, file)
        /\ llm \in BOOLEAN
        /\ embeddings \in BOOLEAN
        /\ vectorstore = init_vectorstore(embeddings, advisor_clinics, disk, chroma_ok)
        /\ conversation_history = <<>>
        /\ keyword_seen = FALSE
        /\ last = [op |-> "init"]
        /\ WebIdle
        /\ rebuild = no_rebuild(vectorstore)

\* str(KeyError('name')), the text of the exception format_clinic_info raises.
KeyErrorText == <<"'", "n", "a", "m", "e", "'">>

\* The conversation loop of the command line around one chat call: the reply
\* is printed; an exception is caught and printed as "Error: {e}" followed by
\* "Please try again.", and the loop goes on.
cli_prints(r) ==
    IF r.outcome = "raised"
    THEN [wording |-> "error+exception+try_again", blocks |-> <<>>, text |-> KeyErrorText]
    ELSE r.reply

chats_so_far ==
    Cardinality({i \in 1..Len(conversation_history) : conversation_history[i].role = "user"})

uses_keyword(calls) == \E i \in 1..Len(calls) : calls[i].index = "keyword"

Chat ==
    /\ chats_so_far < MaxChats
    /\ \E user_message \in Messages, sem \in search_outcomes(vectorstore),
          llm_raises \in (IF llm THEN BOOLEAN ELSE {FALSE}) :
          LET r == chat(vectorstore, clinics, llm, conversation_history, user_message,
                        [semantic |-> sem, llm_raises |-> llm_raises])
          IN  /\ conversation_history' = r.history
              /\ keyword_seen' = (keyword_seen \/ uses_keyword(r.calls))
              /\ llm' = llm_after_invoke(llm, llm_raises /\ r.outcome = "returned")
              /\ vectorstore' = IF r.calls # <<>> THEN vectorstore_after_search(vectorstore, sem)
                                ELSE vectorstore
              /\ last' = [op |-> "chat", message |-> user_message, outcome |-> r.outcome,
                          reply |-> r.reply, calls |-> r.calls, request |-> r.request,
                          context |-> r.context,
                          llm_raised |-> (llm_raises /\ r.outcome = "returned"),
                          printed |-> cli_prints(r),
                          semantic_raised |-> (r.calls # <<>> /\ truthy(vectorstore) /\ sem.raises)]
    /\ UNCHANGED <<clinics, advisor_clinics, embeddings, web_vars, rebuild>>

SearchClinics ==
    /\ \E query \in AdvisorQueries, sem \in search_outcomes(vectorstore) :
          LET r == search_clinics(vectorstore, clinics, query, sem)
          IN  /\ keyword_seen' = (keyword_seen \/ uses_keyword(r.calls))
              /\ vectorstore' = vectorstore_after_search(vectorstore, sem)
              /\ last' = [op |-> "search_clinics", query |-> query, result |-> r.result,
                          calls |-> r.calls,
                          semantic_raised |-> (truthy(vectorstore) /\ sem.raises)]
    /\ UNCHANGED <<clinics, advisor_clinics, embeddings, llm, conversation_history, web_vars,
                   rebuild>>

\* /scrape: the scraped clinics are saved, the store reloaded and the index rebuilt.
ScrapeCommand ==
    /\ \E scraped \in AdvisorStores \ {<<>>}, chroma_ok \in BOOLEAN :
          LET file == [exists |-> TRUE, content |-> scraped]
          IN  /\ clinics' = load_clinics_store(clinics, file)
              /\ advisor_clinics' = load_clinics_returns(clinics, file)
              /\ vectorstore' = create_from_clinics(embeddings, vectorstore,
                                                    load_clinics_returns(clinics, file), chroma_ok)
              /\ last' = [op |-> "/scrape", rebuilt |-> embeddings /\ chroma_ok]
    /\ UNCHANGED <<embeddings, llm, conversation_history, keyword_seen, web_vars, rebuild>>

Next ==
    \/ Chat
    \/ SearchClinics
    \/ ScrapeCommand

Spec == Init /\ [][Next]_vars

(***************************************************************************)
(* /scrape statement by statement (beauty_advisor.py, handle_command), and *)
(* create_from_clinics within it: the store is reloaded, the documents are *)
(* collected in a local list, and the index is assigned once, when         *)
(* Chroma.from_documents has returned.  A search_clinics call is placed    *)
(* between any two statements, to show what a reader of the index sees     *)
(* there.                                                                  *)
(***************************************************************************)

\* A plausible slip: the index filled in place, document by document.
visible_index_partial(vs, rb) ==
    IF rb.pc = "documents" THEN [is_none |-> FALSE, documents |-> rb.documents] ELSE vs

\* What self.vector_store.vectorstore names while create_from_clinics runs:
\* `documents` is a local of the call and is not reachable from the object.
visible_index(vs, rb) == vs

\* The scraped clinics are saved, and `advisor.clinics =
\* advisor.processor.load_clinics()`; then create_from_clinics is entered and
\* returns at once without an embedding client.
ScrapeReload ==
    /\ rebuild.pc = "idle"
    /\ \E scraped \in AdvisorStores \ {<<>>} :
          LET file == [exists |-> TRUE, content |-> scraped]
          IN  /\ clinics' = load_clinics_store(clinics, file)
              /\ advisor_clinics' = load_clinics_returns(clinics, file)
              /\ rebuild' = [pc |-> IF embeddings THEN "documents" ELSE "idle",
                             documents |-> <<>>,
                             old |-> vectorstore,
                             target |-> create_from_clinics(embeddings, vectorstore,
                                                            load_clinics_returns(clinics, file), TRUE)]
    /\ last' = [op |-> "/scrape:reload"]
    /\ UNCHANGED <<embeddings, vectorstore, llm, conversation_history, keyword_seen, web_vars>>

\* create_from_clinics, one turn of its loop: documents.append(doc).
AppendDocument ==
    /\ rebuild.pc = "documents"
    /\ Len(rebuild.documents) < Len(advisor_clinics)
    /\ rebuild' = [rebuild EXCEPT
                      !.documents = Append(@, documents_of(advisor_clinics)[Len(@) + 1])]
    /\ UNCHANGED <<clinics, advisor_clinics, embeddings, vectorstore, llm, conversation_history,
                   keyword_seen, last, web_vars>>

\* create_from_clinics, its try: `self.vectorstore = Chroma.from_documents(...)`,
\* or the except branch, which assigns nothing.
Publish ==
    /\ rebuild.pc = "documents"
    /\ Len(rebuild.documents) = Len(advisor_clinics)
    /\ \E chroma_ok \in BOOLEAN :
          /\ vectorstore' = IF chroma_ok
                            THEN [is_none |-> FALSE, documents |-> rebuild.documents]
                            ELSE vectorstore
          /\ last' = [op |-> "/scrape", rebuilt |-> chroma_ok]
    /\ rebuild' = [rebuild EXCEPT !.pc = "idle", !.documents = <<>>]
    /\ UNCHANGED <<clinics, advisor_clinics, embeddings, llm, conversation_history, keyword_seen,
                   web_vars>>

\* search_clinics, called at this point of the reload.
SearchAtAnyPoint ==
    /\ \E query \in AdvisorQueries, sem \in search_outcomes(visible_index(vectorstore, rebuild)) :
          LET seen == visible_index(vectorstore, rebuild)
              r == search_clinics(seen, clinics, query, sem)
          IN  /\ keyword_seen' = (keyword_seen \/ uses_keyword(r.calls))
              /\ last' = [op |-> "search_clinics", query |-> query, result |-> r.result,
                          calls |-> r.calls,
                          semantic_raised |-> (truthy(seen) /\ sem.raises),
                          seen |-> seen, during |-> (rebuild.pc # "idle")]
    /\ UNCHANGED <<clinics, advisor_clinics, embeddings, vectorstore, llm, conversation_history,
                   web_vars, rebuild>>

NextRebuild ==
    \/ ScrapeReload
    \/ AppendDocument
    \/ Publish
    \/ SearchAtAnyPoint

SpecRebuild == Init /\ [][NextRebuild]_vars

(***************************************************************************)
(* The web application (main.py) in its gunicorn worker of two threads     *)
(* (gunicorn.conf.py).  A thread takes a chat request of some caller and   *)
(* runs it statement by statement; the other thread may run in between.    *)
(* An instance is a BeautyAdvisor: its history and, for each turn, the     *)
(* caller whose request stored it.  Every construction meets the same      *)
(* clinics.json and the same backends, those of the initial state.         *)
(***************************************************************************)
Sessions == {"A", "B"}

WebMessages == {FindN, Hi}

\* The clinics.json the worker starts from.
WebFile == [exists |-> TRUE, content |-> <<Clinic1>>]

InitWeb ==
    LET file == WebFile IN
        /\ clinics = load_clinics_store(<<>>, file)
        /\ advisor_clinics = load_clinics_returns(<<>>, file)
        /\ llm \in BOOLEAN
        /\ embeddings = FALSE
        /\ vectorstore = init_vectorstore(embeddings, advisor_clinics,
                                          [exists |-> FALSE, opens |-> FALSE, documents |-> <<>>],
                                          FALSE)
        /\ conversation_history = <<>>
        /\ keyword_seen = FALSE
        /\ last = [op |-> "init"]
        /\ WebIdle
        /\ rebuild = no_rebuild(vectorstore)

cli_vars == <<clinics, advisor_clinics, embeddings, vectorstore, llm, conversation_history,
              keyword_seen, rebuild>>

NewInstance == [conversation_history |-> <<>>, turn_session |-> <<>>]

\* The chat requests received so far: those whose user turn is stored, and
\* those on their way to storing it.
web_chats_started ==
    LET stored(i) == Cardinality({k \in 1..Len(instances[i].conversation_history) :
                                     instances[i].conversation_history[k].role = "user"})
        waiting == Cardinality({t \in Threads :
                                   threads[t].pc \in {"get_advisor", "construct", "assign",
                                                      "return", "chat"}})
    IN  (IF Len(instances) >= 1 THEN stored(1) ELSE 0)
        + (IF Len(instances) >= 2 THEN stored(2) ELSE 0) + waiting

\* POST /api/chat arrives: message = data["message"].
Receive(t) ==
    /\ threads[t].pc = "idle"
    /\ web_chats_started < MaxWebChats
    /\ \E session \in Sessions, message \in WebMessages :
          threads' = [threads EXCEPT ![t] = [IdleThread EXCEPT !.pc = "get_advisor",
                                                               !.session = session,
                                                               !.message = message]]
    /\ UNCHANGED <<cli_vars, last, advisor, instances>>

\* get_advisor: `if advisor is None`; when it is not, `return advisor`.
GetAdvisor(t) ==
    /\ threads[t].pc = "get_advisor"
    /\ threads' = [threads EXCEPT ![t] =
                      IF advisor = 0 THEN [@ EXCEPT !.pc = "construct"]
                      ELSE [@ EXCEPT !.pc = "chat", !.instance = advisor]]
    /\ UNCHANGED <<cli_vars, last, advisor, instances>>

\* get_advisor: BeautyAdvisor(api_key=api_key) builds a new object.
Construct(t) ==
    /\ threads[t].pc = "construct"
    /\ instances' = Append(instances, NewInstance)
    /\ threads' = [threads EXCEPT ![t] = [@ EXCEPT !.pc = "assign", !.new = Len(instances) + 1]]
    /\ UNCHANGED <<cli_vars, last, advisor>>

\* get_advisor: `advisor = ...` stores the new object in the global.
Assign(t) ==
    /\ threads[t].pc = "assign"
    /\ advisor' = threads[t].new
    /\ threads' = [threads EXCEPT ![t] = [@ EXCEPT !.pc = "return"]]
    /\ UNCHANGED <<cli_vars, last, instances>>

\* get_advisor: `return advisor` reads the global.
Return(t) ==
    /\ threads[t].pc = "return"
    /\ threads' = [threads EXCEPT ![t] = [@ EXCEPT !.pc = "chat", !.instance = advisor]]
    /\ UNCHANGED <<cli_vars, last, advisor, instances>>

\* chat: the user's turn is appended to the instance's history.
ChatAppendUser(t) ==
    /\ threads[t].pc = "chat"
    /\ LET i == threads[t].instance
       IN  instances' = [instances EXCEPT ![i] =
               [conversation_history |->
                    history_append(@.conversation_history, user_turn(threads[t].message)),
                turn_session |-> Append(@.turn_session, threads[t].session)]]
    /\ threads' = [threads EXCEPT ![t] = [@ EXCEPT !.pc = "generate"]]
    /\ UNCHANGED <<cli_vars, last, advisor>>

\* chat: the search, the clinic context, the request and the reply, from the
\* history as it is now.
ChatGenerate(t) ==
    /\ threads[t].pc = "generate"
    /\ \E sem \in search_outcomes(vectorstore), llm_raises \in (IF llm THEN BOOLEAN ELSE {FALSE}) :
          LET i == threads[t].instance
              r == chat_respond(vectorstore, clinics, llm, instances[i].conversation_history,
                                threads[t].message, [semantic |-> sem, llm_raises |-> llm_raises])
          IN  threads' = [threads EXCEPT ![t] =
                  [@ EXCEPT !.pc = IF r.outcome = "raised" THEN "respond" ELSE "append_reply",
                            !.result = [outcome |-> r.outcome, reply |-> r.reply,
                                        request |-> r.request]]]
    /\ UNCHANGED <<cli_vars, last, advisor, instances>>

\* chat: the assistant's turn is appended.
ChatAppendAssistant(t) ==
    /\ threads[t].pc = "append_reply"
    /\ LET i == threads[t].instance
       IN  instances' = [instances EXCEPT ![i] =
               [conversation_history |->
                    history_append(@.conversation_history, assistant_turn(threads[t].result.reply)),
                turn_session |-> Append(@.turn_session, threads[t].session)]]
    /\ threads' = [threads EXCEPT ![t] = [@ EXCEPT !.pc = "respond"]]
    /\ UNCHANGED <<cli_vars, last, advisor>>

\* The response: 200 with the reply, or 500 when chat raised.
Respond(t) ==
    /\ threads[t].pc = "respond"
    /\ last' = [op |-> "POST /api/chat", session |-> threads[t].session,
                message |-> threads[t].message, instance |-> threads[t].instance,
                status |-> IF threads[t].result.outcome = "raised" THEN 500 ELSE 200,
                reply |-> threads[t].result.reply, request |-> threads[t].result.request]
    /\ threads' = [threads EXCEPT ![t] = IdleThread]
    /\ UNCHANGED <<cli_vars, advisor, instances>>

NextWeb ==
    \E t \in Threads :
        \/ Receive(t)
        \/ GetAdvisor(t)
        \/ Construct(t)
        \/ Assign(t)
        \/ Return(t)
        \/ ChatAppendUser(t)
        \/ ChatGenerate(t)
        \/ ChatAppendAssistant(t)
        \/ Respond(t)

SpecWeb == InitWeb /\ [][NextWeb]_vars

(***************************************************************************)
(* One chat call with the generation backend as a party of its own         *)
(* (advisor_agent.py, chat; gunicorn.conf.py).  The call stores the user's *)
(* turn, retrieves, composes the request and hands it to llm.invoke; the   *)
(* backend then answers, raises, or does neither.  ChatOpenAI is built     *)
(* without a timeout (advisor_agent.py, __init__), so nothing in the call  *)
(* ends the wait; the one timeout of the repository is gunicorn's, whose   *)
(* arbiter kills a silent worker process.                                  *)
(***************************************************************************)

\* chat up to llm.invoke: the user's turn, the search, the clinic context and
\* the request.  Without a model the fallback reply is there at once.
ChatBegin(t) ==
    /\ threads[t].pc = "idle"
    /\ chats_so_far < MaxWebChats
    /\ \E user_message \in WebMessages, sem \in search_outcomes(vectorstore) :
          LET h1 == history_append(conversation_history, user_turn(user_message))
              r == chat_respond(vectorstore, clinics, llm, h1, user_message,
                                [semantic |-> sem, llm_raises |-> FALSE])
          IN  /\ conversation_history' = h1
              /\ keyword_seen' = (keyword_seen \/ uses_keyword(r.calls))
              /\ vectorstore' = IF r.calls # <<>> THEN vectorstore_after_search(vectorstore, sem)
                                ELSE vectorstore
              /\ threads' = [threads EXCEPT ![t] =
                    [IdleThread EXCEPT
                        !.pc = IF r.outcome = "raised" THEN "idle"
                               ELSE IF llm THEN "invoke" ELSE "append_reply",
                        !.message = user_message,
                        !.result = [outcome |-> IF r.outcome = "raised" THEN "raised" ELSE "pending",
                                    reply |-> IF llm THEN NoReply ELSE r.reply,
                                    request |-> r.request, context |-> r.context]]]
    /\ UNCHANGED <<clinics, advisor_clinics, embeddings, llm, last, advisor, instances, rebuild>>

\* llm.invoke returns: assistant_message = response.content.
LlmResponds(t) ==
    /\ threads[t].pc = "invoke"
    /\ threads' = [threads EXCEPT ![t] = [@ EXCEPT !.pc = "append_reply",
                                                   !.result.reply = LlmResponse]]
    /\ UNCHANGED <<cli_vars, last, advisor, instances>>

\* llm.invoke raises: the except branch takes the fallback reply.
LlmRaises(t) ==
    /\ threads[t].pc = "invoke"
    /\ threads' = [threads EXCEPT ![t] =
          [@ EXCEPT !.pc = "append_reply",
                    !.result.reply = generate_fallback_response(threads[t].message,
                                                                threads[t].result.context)]]
    /\ llm' = llm_after_invoke(llm, TRUE)
    /\ UNCHANGED <<clinics, advisor_clinics, embeddings, vectorstore, conversation_history,
                   keyword_seen, rebuild, last, advisor, instances>>

\* chat: the assistant's turn is appended and the reply returned.
ChatEnd(t) ==
    /\ threads[t].pc = "append_reply"
    /\ conversation_history' =
          history_append(conversation_history, assistant_turn(threads[t].result.reply))
    /\ threads' = [threads EXCEPT ![t] = [@ EXCEPT !.pc = "idle", !.result.outcome = "returned"]]
    /\ last' = [op |-> "chat", message |-> threads[t].message, outcome |-> "returned",
                reply |-> threads[t].result.reply]
    /\ UNCHANGED <<clinics, advisor_clinics, embeddings, vectorstore, llm, keyword_seen, rebuild,
                   advisor, instances>>

\* gunicorn's `timeout`: the arbiter kills the worker process.  The calls it
\* was running end there, without a reply.
WorkerTimeout ==
    /\ \E t \in Threads : threads[t].pc = "invoke"
    /\ threads' = [t \in Threads |->
                      IF threads[t].pc = "idle" THEN threads[t]
                      ELSE [threads[t] EXCEPT !.pc = "killed", !.result.outcome = "killed"]]
    /\ last' = [op |-> "worker_timeout"]
    /\ UNCHANGED <<cli_vars, advisor, instances>>

worker_alive == \A t \in Threads : threads[t].pc # "killed"

NextLive ==
    \/ \E t \in Threads :
          /\ worker_alive
          /\ \/ ChatBegin(t)
             \/ LlmResponds(t)
             \/ LlmRaises(t)
             \/ ChatEnd(t)
    \/ worker_alive /\ WorkerTimeout

\* The program runs on when it can: a reply in hand is appended and returned,
\* and the arbiter's timeout fires.  Nothing makes the backend answer.
SpecLive ==
    /\ InitWeb
    /\ [][NextLive]_vars
    /\ \A t \in Threads : WF_vars(worker_alive /\ ChatEnd(t))
    /\ WF_vars(worker_alive /\ WorkerTimeout)

(***************************************************************************)
(* Translator (advisor/translator.py).  `enabled` is whether the           *)
(* translation client exists; what the client answers to one translate     *)
(* call is an input: it raises, or it returns a text, which may be empty.  *)
(***************************************************************************)
Japanese == <<"J", "a">>
English == <<"E", "n">>
Blank == <<" ">>

fields_to_translate == <<"name_japanese", "description_japanese", "address_japanese">>

\* field.replace('_japanese', '')
english_field_of(field) ==
    CASE field = "name_japanese" -> "name"
      [] field = "description_japanese" -> "description"
      [] field = "address_japanese" -> "address"

\* `not text.strip()`: nothing is left of the text without its whitespace.
strip_is_empty(text) == \A i \in 1..Len(text) : is_space(text[i])

TranslateOutcomes ==
    {[raises |-> TRUE, text |-> <<>>],
     [raises |-> FALSE, text |-> <<>>],
     [raises |-> FALSE, text |-> English]}

\* translate_to_english
translate_to_english(enabled, text, outcome) ==
    IF text = <<>> \/ strip_is_empty(text) THEN <<>>
    ELSE IF ~enabled THEN text
    ELSE IF outcome.raises THEN text
    ELSE IF outcome.text # <<>> THEN outcome.text ELSE text

\* A plausible slip: the localized field translated over an English one.
field_translated_always(clinic, field) ==
    field \in DOMAIN clinic /\ clinic[field] # <<>>

\* The two tests of translate_clinic_data's loop: the localized field is
\* there and not empty, and the English one is missing or empty.
field_is_translated(clinic, field) ==
    /\ field \in DOMAIN clinic /\ clinic[field] # <<>>
    /\ (english_field_of(field) \notin DOMAIN clinic \/ clinic[english_field_of(field)] = <<>>)

\* translated[english_field] = value
dict_set(d, key, value) ==
    [k \in DOMAIN d \cup {key} |-> IF k = key THEN value ELSE d[k]]

\* The loop of translate_clinic_data over fields_to_translate, from field i.
RECURSIVE translate_loop(_, _, _, _)
translate_loop(clinic, translated, i, outcomes) ==
    IF i > Len(fields_to_translate) THEN translated
    ELSE LET field == fields_to_translate[i]
         IN  translate_loop(clinic,
                            IF field_is_translated(clinic, field)
                            THEN dict_set(translated, english_field_of(field),
                                          translate_to_english(TRUE, clinic[field], outcomes[field]))
                            ELSE translated,
                            i + 1, outcomes)

\* translate_clinic_data: the clinic itself without a translation client,
\* otherwise a copy with the English fields that were missing filled in.
translate_clinic_data(enabled, clinic, outcomes) ==
    IF ~enabled THEN clinic
    ELSE translate_loop(clinic, clinic, 1, outcomes)

\* The clinics given to the translator: each field absent, empty or set.
optional_field(key, values) == {<<>>} \cup {key :> v : v \in values}

TranslatorClinics ==
    {n @@ nj @@ d @@ dj :
        n \in optional_field("name", {<<>>, English}),
        nj \in optional_field("name_japanese", {<<>>, Japanese, Blank}),
        d \in optional_field("description", {<<>>, English}),
        dj \in optional_field("description_japanese", {<<>>, Japanese})}

FieldOutcomes ==
    {[name_japanese |-> o1, description_japanese |-> o2,
      address_japanese |-> [raises |-> TRUE, text |-> <<>>]] :
        o1 \in TranslateOutcomes, o2 \in TranslateOutcomes}

NoOutcomes == [f \in {"name_japanese", "description_japanese", "address_japanese"} |->
                  [raises |-> TRUE, text |-> <<>>]]

TranslateClinicData ==
    /\ \E clinic \in TranslatorClinics, enabled \in BOOLEAN :
          \E outcomes \in (IF enabled THEN FieldOutcomes ELSE {NoOutcomes}) :
              last' = [op |-> "translate_clinic_data", clinic |-> clinic, enabled |-> enabled,
                       outcomes |-> outcomes,
                       result |-> translate_clinic_data(enabled, clinic, outcomes)]
    /\ UNCHANGED <<clinics, Untouched>>

NextTranslator ==
    \/ TranslateClinicData

SpecTranslator == InitStore /\ [][NextTranslator]_vars

(***************************************************************************)
(* What the claims say, in terms that do not use the model's loops.        *)
(***************************************************************************)

\* The whitespace-separated tokens of a text: its maximal runs without a space.
TokensOf(s) ==
    {SubSeq(s, i, j) : <<i, j>> \in
        {w \in (1..Len(s)) \X (1..Len(s)) :
            /\ w[1] <= w[2]
            /\ \A k \in w[1]..w[2] : s[k] # " "
            /\ (w[1] = 1 \/ s[w[1] - 1] = " ")
            /\ (w[2] = Len(s) \/ s[w[2] + 1] = " ")}}

\* Whether `sub` occurs somewhere in `text`.
OccursIn(sub, text) ==
    \E i \in 1..(Len(text) + 1) :
        /\ i + Len(sub) - 1 <= Len(text)
        /\ \A k \in 1..Len(sub) : text[i + k - 1] = sub[k]

Field(c, key) == IF key \in DOMAIN c THEN c[key] ELSE <<>>

RECURSIVE SpaceJoined(_)
SpaceJoined(parts) ==
    IF Len(parts) = 0 THEN <<>>
    ELSE IF Len(parts) = 1 THEN parts[1]
    ELSE SpaceJoined(SubSeq(parts, 1, Len(parts) - 1)) \o <<" ">> \o parts[Len(parts)]

\* name, description, area, location, category and the services, joined by spaces.
ComposedText(c) ==
    Field(c, "name") \o <<" ">> \o Field(c, "description") \o <<" ">> \o Field(c, "area")
        \o <<" ">> \o Field(c, "location") \o <<" ">> \o Field(c, "category")
        \o <<" ">> \o SpaceJoined(Field(c, "services"))

RecordMatches(c, q) ==
    \E tok \in TokensOf(lower(q)) : OccursIn(tok, lower(ComposedText(c)))

\* `res` is the sub-sequence of `store` at exactly the positions in `at`, in order.
IsSubsequenceAt(res, store, at) ==
    /\ Len(res) = Cardinality(at)
    /\ \E f \in [1..Len(res) -> 1..Len(store)] :
          /\ \A i, j \in 1..Len(res) : i < j => f[i] < f[j]
          /\ {f[i] : i \in 1..Len(res)} = at
          /\ \A i \in 1..Len(res) : res[i] = store[f[i]]

RatingOrZero(c) == IF "rating" \in DOMAIN c THEN c.rating ELSE 0

\* C8: get_top_rated returns records of the store by rating descending (no
\* rating counts as 0), and records of equal rating keep their store order.
C8_TopRatedSortedAndStable ==
    last.op = "get_top_rated" =>
        \E p \in [1..Len(last.result) -> 1..Len(clinics)] :
            /\ \A i, j \in 1..Len(last.result) : i # j => p[i] # p[j]
            /\ \A i \in 1..Len(last.result) : last.result[i] = clinics[p[i]]
            /\ \A i, j \in 1..Len(last.result) :
                  i < j => /\ RatingOrZero(last.result[i]) >= RatingOrZero(last.result[j])
                           /\ (RatingOrZero(last.result[i]) = RatingOrZero(last.result[j])
                                  => p[i] < p[j])

\* C8 happens: two different records of equal rating were returned.
C8_Witness ==
    /\ last.op = "get_top_rated"
    /\ Len(last.result) = 2
    /\ last.result[1] # last.result[2]
    /\ RatingOrZero(last.result[1]) = RatingOrZero(last.result[2])

RECURSIVE SumOver(_, _)
SumOver(f, keys) ==
    IF keys = {} THEN 0
    ELSE LET k == CHOOSE x \in keys : TRUE IN f[k] + SumOver(f, keys \ {k})

KeyOrUnknown(c, key) == IF key \in DOMAIN c THEN c[key] ELSE Unknown

CountsCoverStore(counts, key, total) ==
    /\ SumOver(counts, DOMAIN counts) = total
    /\ DOMAIN counts = {KeyOrUnknown(clinics[i], key) : i \in 1..Len(clinics)}
    /\ \A v \in DOMAIN counts :
          counts[v] = Cardinality({i \in 1..Len(clinics) : KeyOrUnknown(clinics[i], key) = v})

\* C9: for a non-empty store the category counts and the location counts of
\* get_statistics each sum to the reported total, which is the number of
\* records, and each record is counted once, under Unknown when it lacks the key.
C9_CountsSumToTotal ==
    (last.op = "get_statistics" /\ clinics # <<>>) =>
        /\ last.result.total_clinics = Len(clinics)
        /\ CountsCoverStore(last.result.categories, "category", last.result.total_clinics)
        /\ CountsCoverStore(last.result.locations, "location", last.result.total_clinics)

\* C9 happens: statistics of a store with a record that has no category and
\* another that has one.
C9_Witness ==
    /\ last.op = "get_statistics"
    /\ Len(clinics) = 2
    /\ \E i \in 1..2 : "category" \notin DOMAIN clinics[i]
    /\ \E i \in 1..2 : "category" \in DOMAIN clinics[i]

\* C10: on an empty store get_statistics returns a total of 0 and an average
\* rating of 0, and the /stats command that reads them does not fail.
C10_EmptyStoreStatistics ==
    /\ (last.op = "get_statistics" /\ clinics = <<>>) =>
          /\ "total_clinics" \in DOMAIN last.result
          /\ "average_rating" \in DOMAIN last.result
          /\ last.result.total_clinics = 0
          /\ last.result.average_rating.num = 0
    /\ (last.op = "/stats" /\ clinics = <<>>) => last.raised = None


\* C2: while the semantic index is not ready, search_clinics returns the same
\* sequence as search_by_keyword on the store, for the same query.
C2_NotReadySearchIsKeywordSearch ==
    (last.op = "search_clinics" /\ ~truthy(vectorstore)) =>
        last.result = search_by_keyword(clinics, last.query)

\* C2 happens: there are embeddings but no index (never built, or the build
\* failed), and the search kept one record of two.
C2_Witness ==
    /\ last.op = "search_clinics"
    /\ embeddings
    /\ ~truthy(vectorstore)
    /\ Len(clinics) = 2
    /\ Len(last.result) = 1

\* `res` is made of the records of different documents of the index.
FromDocuments(res, docs) ==
    \E p \in [1..Len(res) -> 1..Len(docs)] :
        /\ \A i, j \in 1..Len(res) : i # j => p[i] # p[j]
        /\ \A i \in 1..Len(res) : docs[p[i]].metadata.clinic_data.json = res[i]

\* C3: with a ready semantic index, a search_clinics call makes one index
\* call, to the semantic index with k = 5; the keyword index is not called,
\* and the result is at most 5 records, all of them out of the index.
C3_ReadySearchIsSemanticOnly ==
    (last.op = "search_clinics" /\ truthy(vectorstore)) =>
        /\ Len(last.calls) = 1
        /\ last.calls[1].index = "semantic"
        /\ last.calls[1].k = 5
        /\ Len(last.result) <= 5
        /\ FromDocuments(last.result, vectorstore.documents)

\* C3 happens: the index answered with a record, and the keyword index would
\* have answered the same query with a record too, from a different store.
C3_Witness ==
    /\ last.op = "search_clinics"
    /\ truthy(vectorstore)
    /\ last.result # <<>>
    /\ \E i \in 1..Len(clinics) : RecordMatches(clinics[i], last.query)
    /\ documents_of(clinics) # vectorstore.documents

UsedIndexes(calls) == {calls[i].index : i \in 1..Len(calls)}

\* C4: every search_clinics call chooses by the index's readiness when it is
\* made, whatever earlier calls used: semantic when ready, keyword when not.
C4_ChoicePerCall ==
    [][last'.op = "search_clinics" =>
          UsedIndexes(last'.calls) = (IF truthy(vectorstore) THEN {"semantic"} ELSE {"keyword"})]_vars

\* C4 happens: a search went to the semantic index in a session where an
\* earlier search went to the keyword index.
C4_Witness ==
    /\ last.op = "search_clinics"
    /\ keyword_seen
    /\ UsedIndexes(last.calls) = {"semantic"}

HumanContents(request) ==
    LET humans == SelectSeq(request, LAMBDA m : m.type = "human")
    IN  [i \in 1..Len(humans) |-> humans[i].content]

\* The history when the request of the last chat call was composed: all of it
\* but the assistant turn appended since.
HistoryAtCompose == SubSeq(conversation_history, 1, Len(conversation_history) - 1)

\* C5: the turns sent with a generation request are the last min(5, n) turns
\* of the n-turn history, oldest first, and never more than 5.
C5_ActiveWindowIsLastFive ==
    (last.op = "chat" /\ last.request # <<>>) =>
        LET w == HumanContents(last.request)
            h == HistoryAtCompose
            m == IF Len(h) < 5 THEN Len(h) ELSE 5
        IN  /\ Len(w) = m
            /\ Len(w) <= 5
            /\ \A i \in 1..m : w[i] = h[Len(h) - m + i].content

\* C5 happens: a request was composed from a history of more than 5 turns
\* whose first 5 turns are not its last 5.
C5_Witness ==
    /\ last.op = "chat"
    /\ last.request # <<>>
    /\ Len(HistoryAtCompose) > 5
    /\ SubSeq(HistoryAtCompose, 1, 5)
          # SubSeq(HistoryAtCompose, Len(HistoryAtCompose) - 4, Len(HistoryAtCompose))

\* C6: the history only grows at its end: every stored turn stays where it
\* is, as it is, through every call.
C6_HistoryAppendOnly ==
    [][/\ Len(conversation_history') >= Len(conversation_history)
       /\ SubSeq(conversation_history', 1, Len(conversation_history)) = conversation_history]_vars

\* C6 happens: a chat call composed a window shorter than the history and the
\* history kept every turn.
C6_Witness ==
    /\ last.op = "chat"
    /\ last.request # <<>>
    /\ Len(HumanContents(last.request)) < Len(HistoryAtCompose)
    /\ Len(conversation_history) = 2 * chats_so_far


\* C7: the history a chat request reads holds only turns stored by requests
\* of the same caller.
C7_ContextNotShared ==
    \A t \in Threads :
        threads[t].pc = "generate" =>
            \A k \in 1..Len(instances[threads[t].instance].turn_session) :
                instances[threads[t].instance].turn_session[k] = threads[t].session


\* C11: search_by_keyword with an empty query, or a query of whitespace only,
\* returns the empty list whatever the store holds.
C11_EmptyQueryFindsNothing ==
    (last.op = "search_by_keyword" /\ TokensOf(last.query) = {}) => last.result = <<>>

\* C11 happens: a query of two spaces was run against a store of two records.
C11_Witness ==
    /\ last.op = "search_by_keyword"
    /\ last.query = <<" ", " ">>
    /\ Len(clinics) = 2
    /\ last.result = <<>>


\* C12: search_clinics with an empty query, or a query of whitespace only,
\* returns the empty list, with or without a semantic index.
C12_EmptyQuerySearchIsEmpty ==
    (last.op = "search_clinics" /\ TokensOf(last.query) = {}) => last.result = <<>>

\* C13: when the semantic index raises during a search_clinics call, the call
\* returns what the keyword search returns for that query.
C13_FailedSemanticFallsBackToKeyword ==
    (last.op = "search_clinics" /\ last.semantic_raised) =>
        last.result = search_by_keyword(clinics, last.query)

\* C14: a call that raised leaves llm and vectorstore as they were, and the
\* next call of the same kind asks the same capability again: a chat that
\* follows a chat whose generation raised sends a request, and a search that
\* follows a search whose semantic index raised asks the semantic index.
C14_FailureDoesNotDisable ==
    [][/\ (last'.op \in {"chat", "search_clinics"}) => (llm' = llm /\ vectorstore' = vectorstore)
       /\ (last.op = "chat" /\ last.llm_raised /\ last'.op = "chat" /\ last'.outcome = "returned")
              => last'.request # <<>>
       /\ (last.op = "search_clinics" /\ last.semantic_raised /\ last'.op = "search_clinics")
              => last'.calls = <<[index |-> "semantic", k |-> TopK]>>]_vars

\* C14 happens: generation raised in the chat before, and this chat, the very
\* next call, sent its request and got the model's reply.
C14_Witness ==
    /\ last.op = "chat"
    /\ ~last.llm_raised
    /\ last.reply = LlmResponse
    /\ Len(conversation_history) >= 4
    /\ conversation_history[Len(conversation_history) - 2].role = "assistant"
    /\ conversation_history[Len(conversation_history) - 2].content.wording # "llm_response"


C16_NoExceptionSurfaces ==
    (last.op = "chat" /\ last.outcome = "raised") =>
        (last.printed.text = <<>> /\ last.printed.wording # "error+exception+try_again")


\* C17: after create_from_clinics has run without building an index (no
\* embedding client, or Chroma raised while building), the index is not Ready.
C17_FailedBuildLeavesIndexNotReady ==
    (last.op = "/scrape" /\ ~last.rebuilt) => ~truthy(vectorstore)


C19_RecordWithoutIdIsSkipped ==
    last.op = "load_clinics" =>
        \A i \in 1..Len(clinics) : "id" \in DOMAIN clinics[i]

\* C20: after a load, every record of the store has a rating from 0 to 5
\* (0 to 50 in tenths).
C20_RatingsWithinRangeAfterLoad ==
    last.op = "load_clinics" =>
        \A i \in 1..Len(clinics) :
            "rating" \in DOMAIN clinics[i] => (clinics[i].rating >= 0 /\ clinics[i].rating <= 50)


EnglishFields == {"name", "description", "address"}

\* C21: translate_clinic_data returns every English field that is present and
\* not empty as it was given, also when its _japanese counterpart is present,
\* with or without a translation client and whatever the client answers.
C21_EnglishFieldKept ==
    last.op = "translate_clinic_data" =>
        \A f \in EnglishFields :
            (f \in DOMAIN last.clinic /\ last.clinic[f] # <<>>) =>
                (f \in DOMAIN last.result /\ last.result[f] = last.clinic[f])

\* C21 happens: a clinic with both name and name_japanese went through an
\* enabled translator whose client answers, and another field of the same
\* clinic was translated in that call.
C21_Witness ==
    /\ last.op = "translate_clinic_data"
    /\ last.enabled
    /\ "name" \in DOMAIN last.clinic /\ last.clinic["name"] = English
    /\ "name_japanese" \in DOMAIN last.clinic /\ last.clinic["name_japanese"] = Japanese
    /\ ~last.outcomes["name_japanese"].raises /\ last.outcomes["name_japanese"].text = English
    /\ "description" \in DOMAIN last.result /\ "description" \notin DOMAIN last.clinic
    /\ last.result["name"] = English

\* C22: when only the localized field is there and the translation client is
\* absent or its call raises, the English field of the result holds the
\* localized text as it is.
C22_UntranslatedFallback ==
    last.op = "translate_clinic_data" =>
        \A field \in {"name_japanese", "description_japanese"} :
            (/\ field \in DOMAIN last.clinic /\ last.clinic[field] # <<>>
             /\ english_field_of(field) \notin DOMAIN last.clinic
             /\ (~last.enabled \/ last.outcomes[field].raises)) =>
                (/\ english_field_of(field) \in DOMAIN last.result
                 /\ last.result[english_field_of(field)] = last.clinic[field])


\* C23: filter_by_location returns, in store order, exactly the records whose
\* location holds the text, case-insensitively, and no others.
C23_FilterByLocationMatchesLocation ==
    last.op = "filter_by_location" =>
        IsSubsequenceAt(last.result, clinics,
                        {i \in 1..Len(clinics) :
                            OccursIn(lower(last.location), lower(Field(clinics[i], "location")))})

QueryOps ==
    {"filter_by_rating", "filter_by_location", "filter_by_category", "get_top_rated",
     "search_by_keyword", "get_statistics"}

C26_TopEndpointCappedAt50 ==
    last.op = "GET /api/clinics/top" => Len(last.clinics) <= TopCap

\* C25: every chat call that waits for the generation backend eventually
\* returns a reply.
C25_ChatEventuallyReplies ==
    \A t \in Threads :
        (threads[t].pc = "invoke")
            ~> (threads[t].pc = "idle" /\ threads[t].result.outcome = "returned")

\* C27: every record search_clinics returns is a record of the store as it is
\* loaded now.
C27_SearchAnswersFromLoadedStore ==
    last.op = "search_clinics" =>
        \A i \in 1..Len(last.result) : \E k \in 1..Len(clinics) : last.result[i] = clinics[k]

\* C28: between chat calls the history is user, assistant, user, assistant, ...
\* and of even length.
C28_HistoryAlternates ==
    /\ Len(conversation_history) % 2 = 0
    /\ \A i \in 1..Len(conversation_history) :
          conversation_history[i].role = IF i % 2 = 1 THEN "user" ELSE "assistant"

\* C29: the request a chat call has sent to the generation backend ends, as
\* far as its conversation turns go, with that call's own user message.
C29_RequestEndsWithOwnMessage ==
    \A t \in Threads :
        (threads[t].pc = "append_reply" /\ threads[t].result.request # <<>>) =>
            LET turns == HumanContents(threads[t].result.request)
            IN  turns[Len(turns)] = user_content(threads[t].message)

\* C30: the process holds at most one BeautyAdvisor, whatever the order in
\* which the threads run get_advisor.
C30_OneAdvisorPerProcess ==
    Len(instances) <= 1

====
